---- MODULE Spec2Model ----
(***************************************************************************)
(* Model of rank_articles.py: the two-mode command line program            *)
(* (preprocess | search) that normalises a JSONL corpus, ranks it with     *)
(* BM25 against a raw and a GPT-expanded query, evaluates the top results  *)
(* and writes one bar chart per query variant.                             *)
(*                                                                         *)
(* Representation.  A Python string is a sequence of lexemes: a word, a    *)
(* word carrying punctuation/upper case, or the whitespace lexeme " ".     *)
(* The empty string is <<>>.  A credential and a title are sequences of    *)
(* single characters, so that slicing ([:5], [:30]) is computed exactly.   *)
(* The data frame is a sequence of rows; a row label is its position.      *)
(***************************************************************************)
EXTENDS Integers, Sequences, FiniteSets, TLC

VARIABLES
    argv,                  \* sys.argv
    env_key,               \* os.getenv("OPENAI_API_KEY"): NoneVal when unset
    raw_file,              \* data/dataset.jsonl
    pp_file,               \* data/preprocessed_dataset.jsonl
    pp_file0,              \* pp_file as it was when the process started
    plots,                 \* PNG files written under plots/, in order
    net,                   \* downloads / network calls made, in order
    out,                   \* lines printed (stdout and stderr), in order
    log,                   \* internal steps taken, in order
    pc,                    \* position of the single thread
    exit_code,             \* Running, then the exit status "0" or "1"
    df,                    \* the data frame of model_bm25, column by column
    bm25,                  \* BM25Okapi instances built, and the corpus of the last
    search_term,           \* input(...)
    search_term_extended,  \* result of extend_search_term_with_gpt
    expanded_query_tokens,
    query_tokens,
    top_results_extended_query,
    top_results_simple_query,
    metrics,               \* one record per evaluate call
    expander_outcome       \* how the external call ended ("none" before it)

vars == <<argv, env_key, raw_file, pp_file, pp_file0, plots, net, out, log, pc,
          exit_code, df, bm25, search_term, search_term_extended,
          expanded_query_tokens, query_tokens, top_results_extended_query,
          top_results_simple_query, metrics, expander_outcome>>

-----------------------------------------------------------------------------
(* Bounds of the model *)
MaxLines == 2     \* lines of the raw dataset
MaxDocs == 3      \* documents of the preprocessed dataset
MaxKeyLen == 6    \* characters of the credential

(* Program constants *)
TopK == 10        \* .head(10)
KeyPrefixLen == 5 \* api_key[:5]
TitleMax == 30    \* x[:30] + '...' if len(x) > 30

\* Python values that may be None
NoneVal == [is_none |-> TRUE, s |-> <<>>]
Str(s) == [is_none |-> FALSE, s |-> s]

\* a file: absent, or a sequence of lines
NoFile == [exists |-> FALSE, lines |-> <<>>]
File(lines) == [exists |-> TRUE, lines |-> lines]

\* a line json.loads rejects
BadLine == [json_ok |-> FALSE, title |-> <<>>, content |-> <<>>]
DocLine(title, content) == [json_ok |-> TRUE, title |-> title, content |-> content]

Running == "running"   \* exit_code while the process has not exited

-----------------------------------------------------------------------------
(* Generic helpers *)
RECURSIVE SeqSum(_)
SeqSum(s) == IF s = <<>> THEN 0 ELSE Head(s) + SeqSum(Tail(s))

Map(f(_), s) == [i \in 1..Len(s) |-> f(s[i])]

Count(x, s) == Cardinality({i \in 1..Len(s) : s[i] = x})

SeqsUpTo(S, n) == UNION {[1..k -> S] : k \in 0..n}

Prefix(s, n) == SubSeq(s, 1, IF Len(s) < n THEN Len(s) ELSE n)

Contains(text, s) ==
    \E i \in 0..(Len(text) - Len(s)) : SubSeq(text, i + 1, i + Len(s)) = s

Line(tag) == [tag |-> tag, text |-> <<>>]

Tags(o) == {o[i].tag : i \in 1..Len(o)}

Pos(s, x) == IF \E i \in 1..Len(s) : s[i] = x
             THEN CHOOSE i \in 1..Len(s) : s[i] = x /\ \A j \in 1..(i - 1) : s[j] # x
             ELSE 0

-----------------------------------------------------------------------------
(* preprocess: lowercase + strip punctuation, tokenize, stopwords, stem *)

\* re.sub(r'[^\w\s]', '', content.lower()) on one lexeme
LowerStrip(w) ==
    CASE w = "Cats," -> "cats"
      [] w = "Running" -> "running"
      [] w = "The" -> "the"
      [] w = "Dogs!" -> "dogs"
      [] w = "!!" -> ""
      [] OTHER -> w

\* word_tokenize: whitespace separates tokens, emptied lexemes vanish
word_tokenize(content) == SelectSeq(content, LAMBDA w : w # " " /\ w # "")

\* stopwords.words('english'), restricted to the vocabulary of the model
Stopwords == {"the"}

\* PorterStemmer().stem
Stem(w) ==
    CASE w = "cats" -> "cat"
      [] w = "running" -> "run"
      [] w = "dogs" -> "dog"
      [] OTHER -> w

\* ' '.join(tokens)
RECURSIVE Join(_)
Join(tokens) ==
    IF Len(tokens) <= 1 THEN tokens
    ELSE <<Head(tokens), " ">> \o Join(Tail(tokens))

\* str.split()
split(text) == SelectSeq(text, LAMBDA w : w # " ")

preprocess(content) ==
    LET lowered == Map(LowerStrip, content)
        tokens == word_tokenize(lowered)
        kept == SelectSeq(tokens, LAMBDA w : w \notin Stopwords)
    IN  Join(Map(Stem, kept))

-----------------------------------------------------------------------------
(* Input universe *)

TitleShort == <<"A">>
TitleLong == [i \in 1..(TitleMax + 1) |-> "x"]

\* the lines a dataset may hold: JSON objects (title, content), or garbage
RawLines ==
    { DocLine(TitleShort, <<"Cats,", " ", "Running">>),
      DocLine(TitleLong, <<"The", " ", "!!">>),
      DocLine(TitleShort, <<>>),
      DocLine(TitleLong, <<"dogs">>),
      BadLine }

\* lines 73-74: doc = json.loads(line); doc['processed_text'] = preprocess(...)
add_processed_text(line) ==
    [title |-> line.title, content |-> line.content,
     processed_text |-> preprocess(line.content)]

PreprocessedDocs == {add_processed_text(l) : l \in RawLines \ {BadLine}}

ArgvSet ==
    { <<"script.py">>,
      <<"script.py", "preprocess">>,
      <<"script.py", "Preprocess">>,
      <<"script.py", "Search">>,
      <<"script.py", "rank">>,
      <<"script.py", "search", "extra">> }

\* str.lower() on the arguments of ArgvSet
Lower(s) ==
    CASE s = "Preprocess" -> "preprocess"
      [] s = "Search" -> "search"
      [] OTHER -> s

\* characters that do not occur in the fixed text of the message
KeyChars == {"x", "z"}
Keys == {NoneVal} \cup {Str(k) : k \in SeqsUpTo(KeyChars, MaxKeyLen)}
LongKey == <<"x", "z", "x", "z", "x", "z", "x">>

Queries == { <<"Cats,">>, <<"Dogs!", " ", "running">>, <<>> }
Expansions == { <<"dogs", " ", "The">>, <<"Running">> }

\* what OpenAI(), chat.completions.create and choices[0].message.content
\* (lines 40-48) can come to
Outcome(kind, content) == [kind |-> kind, content |-> content]
ExpanderOutcomes ==
    {Outcome(k, <<>>) : k \in {"ClientError", "APIError", "IndexError", "NoContent"}}
    \cup {Outcome("Content", e) : e \in Expansions}

-----------------------------------------------------------------------------
(* preprocess_and_save *)

ParseOk(lines) == \A i \in 1..Len(lines) : lines[i].json_ok

\* lines 71-75 complete without raising
preprocess_and_save_ok(input) == input.exists /\ ParseOk(input.lines)

\* writes every document as soon as it is parsed
preprocess_and_save_streaming(input, output) ==
    IF ~input.exists THEN output
    ELSE LET bad == {i \in 1..Len(input.lines) : ~input.lines[i].json_ok}
             n == IF bad = {} THEN Len(input.lines)
                  ELSE (CHOOSE i \in bad : \A j \in bad : i <= j) - 1
         IN  File([i \in 1..n |-> add_processed_text(input.lines[i])])

\* opens the output for writing before reading the input
preprocess_and_save_open_first(input, output) ==
    IF preprocess_and_save_ok(input)
    THEN File([i \in 1..Len(input.lines) |-> add_processed_text(input.lines[i])])
    ELSE File(<<>>)

\* the output file after lines 70-80: the input is read and parsed completely
\* (71-75) before the output is opened (77)
preprocess_and_save_output(input, output) ==
    IF preprocess_and_save_ok(input)
    THEN File([i \in 1..Len(input.lines) |-> add_processed_text(input.lines[i])])
    ELSE output

-----------------------------------------------------------------------------
(* check_api_key *)

KeySetMsg == <<"O","P","E","N","A","I","_","A","P","I","_","K","E","Y",
               " ","i","s"," ","s","e","t",":"," ">>
KeyNotSetMsg == <<"O","P","E","N","A","I","_","A","P","I","_","K","E","Y",
                  " ","i","s"," ","n","o","t"," ","s","e","t",".">>

\* if api_key: an unset variable and an empty one are both falsy
Truthy(api_key) == ~api_key.is_none /\ api_key.s # <<>>

\* lines 171-175: the line printed
check_api_key_line(api_key) ==
    IF Truthy(api_key)
    THEN [tag |-> "key_set",
          text |-> KeySetMsg \o Prefix(api_key.s, KeyPrefixLen) \o <<".", ".", ".">>]
    ELSE [tag |-> "key_not_set", text |-> KeyNotSetMsg]

-----------------------------------------------------------------------------
(* extend_search_term_with_gpt *)

\* exits on openai.OpenAIError only; any other failure falls back to the query
extend_fallback(search_term_string, outcome) ==
    IF outcome.kind \in {"ClientError", "APIError"}
    THEN [exit |-> TRUE, value |-> NoneVal,
          printed |-> <<Line("openai_error"), Line("stopping")>>]
    ELSE IF outcome.kind \in {"IndexError", "NoContent"}
    THEN [exit |-> FALSE, value |-> Str(search_term_string), printed |-> <<>>]
    ELSE [exit |-> FALSE, value |-> Str(outcome.content), printed |-> <<>>]

\* lines 39-58: what the call comes to for each outcome of the service.
\* OpenAI() and create() raise openai.OpenAIError (50-52); choices[0] of an
\* empty list raises IndexError (54-56); a message whose content is None
\* raises nothing and None is returned (48, 58)
extend_search_term_with_gpt(search_term_string, outcome) ==
    IF outcome.kind \in {"ClientError", "APIError"}
    THEN [exit |-> TRUE, value |-> NoneVal,
          printed |-> <<Line("openai_error"), Line("stopping")>>]
    ELSE IF outcome.kind = "IndexError"
    THEN [exit |-> TRUE, value |-> NoneVal,
          printed |-> <<Line("unexpected_error"), Line("stopping")>>]
    ELSE IF outcome.kind = "NoContent"
    THEN [exit |-> FALSE, value |-> NoneVal, printed |-> <<>>]
    ELSE [exit |-> FALSE, value |-> Str(outcome.content), printed |-> <<>>]

-----------------------------------------------------------------------------
(* Ranking *)

\* scores the query as typed, split on whitespace only
query_tokens_raw(text) == split(text)

\* lines 101-102 and 104-105: preprocess(...).split()
query_tokens_of(text) == split(preprocess(text))

\* line 93
tokenized_corpus_of(processed_text) ==
    [i \in 1..Len(processed_text) |-> split(processed_text[i])]

\* BM25Okapi(tokenized_corpus) raises ZeroDivisionError for an empty corpus
\* (average document length) and for a corpus without any token (average idf)
BM25Okapi_ok(tc) == Len(tc) > 0 /\ \E i \in 1..Len(tc) : tc[i] # <<>>

\* bm25.get_scores(tokens): one score per document.  The library's BM25
\* weight is abstracted to the summed term frequency of the query tokens: it
\* is zero for the documents sharing no token with the query and grows with
\* the term frequency.
get_scores(tc, tokens) ==
    [i \in 1..Len(tc) |->
        SeqSum([j \in 1..Len(tokens) |-> Count(tokens[j], tc[i])])]

Descending(p, scores) ==
    \A i, j \in 1..Len(p) : i < j => scores[p[i]] >= scores[p[j]]

\* the one descending order that keeps equal scores in corpus order
StableOrder(scores) ==
    CHOOSE p \in Permutations(1..Len(scores)) :
        /\ Descending(p, scores)
        /\ \A i, j \in 1..Len(p) :
              (i < j /\ scores[p[i]] = scores[p[j]]) => p[i] < p[j]

\* df.sort_values(by=col, ascending=False): the row labels in the orders the
\* sort can leave them.  The default kind is quicksort, which is not stable,
\* so equal scores come out in any order.
sort_values_desc(scores) ==
    {p \in Permutations(1..Len(scores)) : Descending(p, scores)}

\* .head(10)
head(p) == Prefix(p, TopK)

-----------------------------------------------------------------------------
(* evaluate *)

\* labels every document relevant
relevant_always(content) == 1

\* line 130: 1 if relevance_condition else 0, the condition being the content
relevant_of(content) == IF content # <<>> THEN 1 ELSE 0

InTop(top, idx) == \E k \in 1..Len(top) : top[k] = idx

\* sklearn's ratio, 0 when the denominator is 0; <<numerator, denominator>>
Ratio(n, d) == IF d = 0 THEN <<0, 1>> ELSE <<n, d>>

\* lines 130-138
metrics_of(content, top, expanded_query) ==
    LET n == Len(content)
        rel == [i \in 1..n |-> relevant_of(content[i])]
        pred == [i \in 1..n |-> IF InTop(top, i) THEN 1 ELSE 0]
        tp == Cardinality({i \in 1..n : rel[i] = 1 /\ pred[i] = 1})
        fp == Cardinality({i \in 1..n : rel[i] = 0 /\ pred[i] = 1})
        fn == Cardinality({i \in 1..n : rel[i] = 1 /\ pred[i] = 0})
    IN  [expanded_query |-> expanded_query, relevant |-> rel, y_pred |-> pred,
         top |-> top, content |-> content,
         precision |-> Ratio(tp, tp + fp),
         recall |-> Ratio(tp, tp + fn),
         f1 |-> Ratio(2 * tp, 2 * tp + fp + fn)]

\* lines 143-145
truncated_title(x) ==
    IF Len(x) > TitleMax THEN SubSeq(x, 1, TitleMax) \o <<".", ".", ".">> ELSE x

\* names both charts alike
plot_file_name_same(expanded_query) == "top_ranked_results_expanded_query.png"

\* line 149
plot_file_name(expanded_query) ==
    IF expanded_query THEN "top_ranked_results_expanded_query.png"
    ELSE "top_ranked_results_simple_query.png"

\* line 153
score_column(expanded_query) ==
    IF expanded_query THEN "bm25_score_extended_query"
    ELSE "bm25_score_simple_query"

\* line 154
query_type(expanded_query) ==
    IF expanded_query THEN "Extended Query" ELSE "Simple Query"

\* lines 148-166: the file plt.savefig writes
png_of(frame, top, expanded_query) ==
    [file |-> plot_file_name(expanded_query),
     score_column |-> score_column(expanded_query),
     title |-> query_type(expanded_query),
     bars |-> [k \in 1..Len(top) |->
                 [label |-> truncated_title(frame.title[top[k]]),
                  width |-> frame[score_column(expanded_query)][top[k]]]]]

-----------------------------------------------------------------------------
(* State *)

EmptyFrame ==
    [columns |-> {}, title |-> <<>>, content |-> <<>>, processed_text |-> <<>>,
     bm25_score_extended_query |-> <<>>, bm25_score_simple_query |-> <<>>,
     relevant |-> <<>>]

\* line 88: pd.DataFrame(documents); no document, no column
DataFrame(documents) ==
    [EmptyFrame EXCEPT
        !.columns = IF documents = <<>> THEN {}
                    ELSE {"title", "content", "processed_text"},
        !.title = [i \in 1..Len(documents) |-> documents[i].title],
        !.content = [i \in 1..Len(documents) |-> documents[i].content],
        !.processed_text = [i \in 1..Len(documents) |-> documents[i].processed_text]]

RawFiles == {NoFile} \cup {File(l) : l \in SeqsUpTo(RawLines, MaxLines)}
PPFiles == {NoFile} \cup {File(l) : l \in SeqsUpTo(PreprocessedDocs, MaxDocs)}
OldPPFile == File(<<add_processed_text(DocLine(TitleShort, <<"dogs">>))>>)

\* sys.argv[1].lower() when there is exactly one argument
Mode == IF Len(argv) = 2 THEN Lower(argv[2]) ELSE "usage"

InitProcess ==
    /\ pp_file0 = pp_file
    /\ plots = <<>>
    /\ net = <<>>
    /\ out = <<>>
    /\ log = <<>>
    /\ pc = "main"
    /\ exit_code = Running
    /\ df = EmptyFrame
    /\ bm25 = [builds |-> 0, corpus |-> <<>>]
    /\ search_term = <<>>
    /\ search_term_extended = NoneVal
    /\ expanded_query_tokens = <<>>
    /\ query_tokens = <<>>
    /\ top_results_extended_query = <<>>
    /\ top_results_simple_query = <<>>
    /\ metrics = <<>>
    /\ expander_outcome = "none"

Init ==
    /\ argv \in ArgvSet
    /\ env_key \in {NoneVal, Str(LongKey)}
    /\ \/ raw_file \in RawFiles /\ pp_file \in {NoFile, OldPPFile}
       \/ raw_file = NoFile /\ pp_file \in PPFiles
    /\ InitProcess

\* a search invocation, for every credential
InitKey ==
    /\ argv \in {<<"script.py", "search">>, <<"script.py", "Search">>}
    /\ env_key \in Keys
    /\ raw_file = NoFile
    /\ pp_file = OldPPFile
    /\ InitProcess

Exit(code) == exit_code' = code /\ pc' = "done"

-----------------------------------------------------------------------------
(* Actions *)

\* lines 177-200
Main ==
    /\ pc = "main"
    /\ net' = net \o <<"nltk.download punkt", "nltk.download stopwords">>
    /\ IF Mode = "preprocess"
       THEN /\ pc' = "preprocess_and_save"
            /\ UNCHANGED <<out, exit_code>>
       ELSE IF Mode = "search"
       THEN /\ pc' = "check_api_key"
            /\ UNCHANGED <<out, exit_code>>
       ELSE /\ out' = Append(out, Line("usage"))
            /\ Exit("1")
    /\ UNCHANGED <<argv, env_key, raw_file, pp_file, pp_file0, plots, log, df, bm25,
                   search_term, search_term_extended, expanded_query_tokens,
                   query_tokens, top_results_extended_query,
                   top_results_simple_query, metrics, expander_outcome>>

\* lines 188-191 with preprocess_and_save (68-80)
PreprocessAndSave ==
    /\ pc = "preprocess_and_save"
    /\ log' = Append(log, "preprocess_and_save")
    /\ pp_file' = preprocess_and_save_output(raw_file, pp_file)
    /\ IF preprocess_and_save_ok(raw_file)
       THEN /\ out' = out \o <<Line("preprocessing"), Line("saved")>>
            /\ Exit("0")
       ELSE /\ out' = out \o <<Line("preprocessing"), Line("traceback")>>
            /\ Exit("1")
    /\ UNCHANGED <<argv, env_key, raw_file, pp_file0, plots, net, df, bm25,
                   search_term, search_term_extended, expanded_query_tokens,
                   query_tokens, top_results_extended_query,
                   top_results_simple_query, metrics, expander_outcome>>

\* line 194 with check_api_key (170-175)
CheckApiKey ==
    /\ pc = "check_api_key"
    /\ out' = Append(out, check_api_key_line(env_key))
    /\ pc' = "load"
    /\ UNCHANGED <<argv, env_key, raw_file, pp_file, pp_file0, plots, net, log,
                   exit_code, df, bm25, search_term, search_term_extended,
                   expanded_query_tokens, query_tokens, top_results_extended_query,
                   top_results_simple_query, metrics, expander_outcome>>

\* model_bm25, lines 83-94: read the corpus, build the frame and the model
LoadCorpus ==
    /\ pc = "load"
    /\ IF ~pp_file.exists
       THEN /\ out' = Append(out, Line("traceback"))   \* FileNotFoundError
            /\ Exit("1")
            /\ UNCHANGED <<log, df, bm25>>
       ELSE LET frame == DataFrame(pp_file.lines)
                tc == tokenized_corpus_of(frame.processed_text)
            IN  /\ df' = frame
                /\ IF "processed_text" \notin frame.columns
                   THEN /\ out' = out \o <<Line("overview"), Line("traceback")>>  \* KeyError
                        /\ log' = Append(log, "load_corpus")
                        /\ Exit("1")
                        /\ UNCHANGED bm25
                   ELSE IF ~BM25Okapi_ok(tc)
                   THEN /\ out' = out \o <<Line("overview"), Line("traceback")>>  \* ZeroDivisionError
                        /\ log' = Append(log, "load_corpus")
                        /\ Exit("1")
                        /\ UNCHANGED bm25
                   ELSE /\ out' = Append(out, Line("overview"))
                        /\ log' = log \o <<"load_corpus", "build_bm25">>
                        /\ bm25' = [builds |-> bm25.builds + 1, corpus |-> tc]
                        /\ pc' = "prompt"
                        /\ UNCHANGED exit_code
    /\ UNCHANGED <<argv, env_key, raw_file, pp_file, pp_file0, plots, net,
                   search_term, search_term_extended, expanded_query_tokens,
                   query_tokens, top_results_extended_query,
                   top_results_simple_query, metrics, expander_outcome>>

\* line 96
Prompt ==
    /\ pc = "prompt"
    /\ \E q \in Queries : search_term' = q
    /\ log' = Append(log, "prompt")
    /\ pc' = "expand"
    /\ UNCHANGED <<argv, env_key, raw_file, pp_file, pp_file0, plots, net, out,
                   exit_code, df, bm25, search_term_extended, expanded_query_tokens,
                   query_tokens, top_results_extended_query,
                   top_results_simple_query, metrics, expander_outcome>>

\* line 97 with extend_search_term_with_gpt (32-58)
Expand ==
    /\ pc = "expand"
    /\ \E outcome \in ExpanderOutcomes :
          \* without a credential OpenAI() itself raises
          /\ Truthy(env_key) \/ outcome.kind = "ClientError"
          /\ LET r == extend_search_term_with_gpt(search_term, outcome)
             IN  /\ expander_outcome' = outcome.kind
                 /\ net' = IF outcome.kind = "ClientError" THEN net
                           ELSE Append(net, "openai chat.completions.create")
                 /\ out' = out \o r.printed
                 /\ search_term_extended' = r.value
                 /\ IF r.exit
                    THEN Exit("1")      \* sys.exit("Stopping the program due to error.")
                    ELSE pc' = "queries" /\ UNCHANGED exit_code
    /\ log' = Append(log, "expand")
    /\ UNCHANGED <<argv, env_key, raw_file, pp_file, pp_file0, plots, df, bm25,
                   search_term, expanded_query_tokens, query_tokens,
                   top_results_extended_query, top_results_simple_query, metrics>>

\* lines 98-105
NormalizeQueries ==
    /\ pc = "queries"
    /\ IF search_term_extended.is_none
       THEN \* preprocess(None): AttributeError at content.lower()
            /\ out' = out \o <<Line("original_query"), Line("expanded_query"),
                               Line("traceback")>>
            /\ Exit("1")
            /\ UNCHANGED <<log, expanded_query_tokens, query_tokens>>
       ELSE /\ out' = out \o <<Line("original_query"), Line("expanded_query")>>
            /\ expanded_query_tokens' = query_tokens_of(search_term_extended.s)
            /\ query_tokens' = query_tokens_of(search_term)
            /\ log' = log \o <<"preprocess_expanded", "preprocess_simple">>
            /\ pc' = "rank_expanded"
            /\ UNCHANGED exit_code
    /\ UNCHANGED <<argv, env_key, raw_file, pp_file, pp_file0, plots, net, df, bm25,
                   search_term, search_term_extended, top_results_extended_query,
                   top_results_simple_query, metrics, expander_outcome>>

\* lines 108-114
RankExpanded ==
    /\ pc = "rank_expanded"
    /\ LET scores == get_scores(bm25.corpus, expanded_query_tokens)
       IN  /\ df' = [df EXCEPT !.columns = @ \cup {"bm25_score_extended_query"},
                               !.bm25_score_extended_query = scores]
           /\ \E p \in sort_values_desc(scores) :
                 top_results_extended_query' = head(p)
    /\ out' = Append(out, Line("top_expanded"))
    /\ log' = Append(log, "score_expanded")
    /\ pc' = "rank_simple"
    /\ UNCHANGED <<argv, env_key, raw_file, pp_file, pp_file0, plots, net,
                   exit_code, bm25, search_term, search_term_extended,
                   expanded_query_tokens, query_tokens, top_results_simple_query,
                   metrics, expander_outcome>>

\* lines 117-123
RankSimple ==
    /\ pc = "rank_simple"
    /\ LET scores == get_scores(bm25.corpus, query_tokens)
       IN  /\ df' = [df EXCEPT !.columns = @ \cup {"bm25_score_simple_query"},
                               !.bm25_score_simple_query = scores]
           /\ \E p \in sort_values_desc(scores) :
                 top_results_simple_query' = head(p)
    /\ out' = Append(out, Line("top_simple"))
    /\ log' = Append(log, "score_simple")
    /\ pc' = "evaluate_expanded"
    /\ UNCHANGED <<argv, env_key, raw_file, pp_file, pp_file0, plots, net,
                   exit_code, bm25, search_term, search_term_extended,
                   expanded_query_tokens, query_tokens, top_results_extended_query,
                   metrics, expander_outcome>>

\* evaluate (128-168)
evaluate(top_results, expanded_query) ==
    /\ df' = [df EXCEPT !.columns = @ \cup {"relevant"},
                        !.relevant = [i \in 1..Len(df.content) |->
                                         relevant_of(df.content[i])]]
    /\ metrics' = Append(metrics, metrics_of(df.content, top_results, expanded_query))
    /\ plots' = Append(plots, png_of(df, top_results, expanded_query))
    /\ out' = out \o <<Line("metrics"), Line("plot_saved")>>
    /\ log' = Append(log, IF expanded_query THEN "evaluate_expanded"
                          ELSE "evaluate_simple")

\* line 125
EvaluateExpanded ==
    /\ pc = "evaluate_expanded"
    /\ evaluate(top_results_extended_query, TRUE)
    /\ pc' = "evaluate_simple"
    /\ UNCHANGED <<argv, env_key, raw_file, pp_file, pp_file0, net, exit_code, bm25,
                   search_term, search_term_extended, expanded_query_tokens,
                   query_tokens, top_results_extended_query,
                   top_results_simple_query, expander_outcome>>

\* line 126, then the script ends
EvaluateSimple ==
    /\ pc = "evaluate_simple"
    /\ evaluate(top_results_simple_query, FALSE)
    /\ Exit("0")
    /\ UNCHANGED <<argv, env_key, raw_file, pp_file, pp_file0, net, bm25,
                   search_term, search_term_extended, expanded_query_tokens,
                   query_tokens, top_results_extended_query,
                   top_results_simple_query, expander_outcome>>

Next ==
    \/ Main
    \/ PreprocessAndSave
    \/ CheckApiKey
    \/ LoadCorpus
    \/ Prompt
    \/ Expand
    \/ NormalizeQueries
    \/ RankExpanded
    \/ RankSimple
    \/ EvaluateExpanded
    \/ EvaluateSimple

Spec == Init /\ [][Next]_vars

NextKey == Main \/ CheckApiKey

SpecKey == InitKey /\ [][NextKey]_vars

-----------------------------------------------------------------------------
(* Properties *)

UsageError == Mode \notin {"preprocess", "search"}

ExpanderFailed == expander_outcome \in {"ClientError", "APIError", "IndexError", "NoContent"}

Diagnostics == {"openai_error", "unexpected_error", "traceback"}

Scored(col) == col \in df.columns

CorpusOnDisk == tokenized_corpus_of([i \in 1..Len(pp_file.lines) |->
                                        pp_file.lines[i].processed_text])

InUnit(r) == 0 <= r[1] /\ r[1] <= r[2] /\ r[2] > 0

Before(a, b) == Pos(log, b) > 0 => (Pos(log, a) > 0 /\ Pos(log, a) < Pos(log, b))

\* C1: a usage error (argument count other than one, or an argument that is
\* neither preprocess nor search in any case) ends in the usage line and exit
\* status 1 with no stage started, no file touched and no download or
\* network call made.
C1_UsageErrorNoPartialWork ==
    (UsageError /\ pc = "done") =>
        /\ exit_code = "1"
        /\ Tags(out) = {"usage"}
        /\ log = <<>>
        /\ pp_file = pp_file0
        /\ plots = <<>>
        /\ net = <<>>

\* C2: once the external query expansion has failed (client construction,
\* API error, no usable choices[0].message.content) the expander is not called
\* again, no score column is ever computed for either query variant, no
\* metrics are printed and no PNG is written; the run cannot succeed and ends
\* with exit status 1 after a diagnostic.
C2_ExpanderFailureIsFatal ==
    ExpanderFailed =>
        /\ Count("expand", log) = 1
        /\ ~Scored("bm25_score_extended_query")
        /\ ~Scored("bm25_score_simple_query")
        /\ Count("score_expanded", log) = 0 /\ Count("score_simple", log) = 0
        /\ metrics = <<>> /\ "metrics" \notin Tags(out)
        /\ plots = <<>>
        /\ pc \in {"queries", "done"}
        /\ exit_code # "0"
        /\ pc = "done" => (exit_code = "1" /\ Tags(out) \cap Diagnostics # {})

C2_Witness ==
    /\ pc = "done" /\ exit_code = "1"
    /\ expander_outcome = "NoContent"
    /\ "traceback" \in Tags(out)

\* C3: the top results of each query variant are the first min(10, corpus
\* size) rows of the corpus in descending score order, rows of equal score in
\* corpus order.
C3_TopResultsStable ==
    /\ Scored("bm25_score_extended_query") =>
          top_results_extended_query = head(StableOrder(df.bm25_score_extended_query))
    /\ Scored("bm25_score_simple_query") =>
          top_results_simple_query = head(StableOrder(df.bm25_score_simple_query))

\* C4: with a malformed line anywhere in the input dataset, preprocessing never
\* prints its completion message, leaves the output file as it was before the
\* run and ends fatally.
C4_MalformedLineAborts ==
    (Mode = "preprocess" /\ raw_file.exists /\ ~ParseOk(raw_file.lines)) =>
        /\ pp_file = pp_file0
        /\ "saved" \notin Tags(out)
        /\ exit_code # "0"
        /\ pc = "done" => (exit_code = "1" /\ "traceback" \in Tags(out))

C4_Witness ==
    /\ Mode = "preprocess" /\ pc = "done"
    /\ raw_file.exists /\ Len(raw_file.lines) = 2
    /\ raw_file.lines[1].json_ok /\ ~raw_file.lines[2].json_ok
    /\ pp_file0.exists

\* C5: preprocess with the input dataset absent ends fatally, prints no
\* success message and leaves the output file as it was: not created, not
\* truncated.
C5_AbsentInputWritesNothing ==
    (Mode = "preprocess" /\ ~raw_file.exists) =>
        /\ pp_file = pp_file0
        /\ "saved" \notin Tags(out)
        /\ exit_code # "0"
        /\ pc = "done" => exit_code = "1"

C5_Witness ==
    /\ Mode = "preprocess" /\ pc = "done" /\ ~raw_file.exists
    /\ ~pp_file0.exists /\ ~pp_file.exists

\* an empty corpus, or one whose relevant set is empty
DegenerateCorpus ==
    /\ pp_file.exists
    /\ \A i \in 1..Len(pp_file.lines) : pp_file.lines[i].content = <<>>

\* C6: a search run over an empty corpus, or over a corpus without any
\* relevant document, whose query expansion succeeded, ends with both metric
\* lines computed, every precision, recall and F1 within [0,1].
C6_DegenerateInputEvaluates ==
    (Mode = "search" /\ DegenerateCorpus /\ ~ExpanderFailed /\ pc = "done") =>
        /\ exit_code = "0"
        /\ Len(metrics) = 2
        /\ \A k \in 1..Len(metrics) :
              InUnit(metrics[k].precision) /\ InUnit(metrics[k].recall)
              /\ InUnit(metrics[k].f1)

\* C7: the line check_api_key prints never contains the whole credential.
C7_CredentialNeverPrintedInFull ==
    \A i \in 1..Len(out) :
        (out[i].tag = "key_set") => ~Contains(out[i].text, env_key.s)

\* C8: evaluate labels every document 1, so precision is 1 and recall is
\* |top results| / |corpus|.
C8_EveryDocumentRelevant ==
    \A k \in 1..Len(metrics) :
        /\ \A i \in 1..Len(metrics[k].relevant) : metrics[k].relevant[i] = 1
        /\ metrics[k].precision[1] = metrics[k].precision[2]
        /\ metrics[k].recall[1] * Len(metrics[k].content)
              = metrics[k].recall[2] * Len(metrics[k].top)

\* C8 (amended): evaluate labels a document 1 exactly when its content is a
\* non-empty string and 0 when it is empty; precision is the share of top
\* results with non-empty content, recall the share of non-empty documents
\* among the top results; when no content is empty precision is 1 and recall
\* is |top results| / |corpus|.
C8_RelevantIffContentNonEmpty ==
    \A k \in 1..Len(metrics) :
        LET m == metrics[k]
            n == Len(m.content)
            nonempty == {i \in 1..n : m.content[i] # <<>>}
            intop == {m.top[j] : j \in 1..Len(m.top)}
        IN  /\ \A i \in 1..n : m.relevant[i] = (IF i \in nonempty THEN 1 ELSE 0)
            /\ m.relevant = df.relevant
            /\ m.precision = <<Cardinality(nonempty \cap intop), Cardinality(intop)>>
            /\ m.recall = <<Cardinality(nonempty \cap intop), Cardinality(nonempty)>>
            /\ nonempty = 1..n =>
                  /\ m.precision[1] = m.precision[2]
                  /\ m.recall = <<Len(m.top), n>>

C8_Witness ==
    /\ Len(metrics) = 2
    /\ \E i \in 1..Len(metrics[1].content) :
          metrics[1].content[i] = <<>> /\ metrics[1].relevant[i] = 0
    /\ metrics[2].precision[1] < metrics[2].precision[2]

\* C9: every score column is the BM25 score, against the one model built from
\* the tokenized processed_text of the corpus on disk, of the query string
\* passed through preprocess and split; this holds for the raw and for the
\* expanded query, and the model is built once.
C9_QueriesNormalizedLikeCorpus ==
    /\ bm25.builds <= 1
    /\ \A i \in 1..Len(pp_file.lines) :
          pp_file.lines[i].processed_text = preprocess(pp_file.lines[i].content)
    /\ Scored("bm25_score_extended_query") =>
          /\ bm25.builds = 1 /\ bm25.corpus = CorpusOnDisk
          /\ df.bm25_score_extended_query =
                get_scores(CorpusOnDisk, split(preprocess(search_term_extended.s)))
    /\ Scored("bm25_score_simple_query") =>
          /\ bm25.builds = 1 /\ bm25.corpus = CorpusOnDisk
          /\ df.bm25_score_simple_query =
                get_scores(CorpusOnDisk, split(preprocess(search_term)))

C9_Witness ==
    /\ pc = "done" /\ exit_code = "0"
    /\ search_term = <<"Cats,">>
    /\ search_term_extended = Str(<<"Running">>)
    /\ \E i \in 1..Len(df.content) : df.bm25_score_simple_query[i] = 1
    /\ \E i \in 1..Len(df.content) : df.bm25_score_extended_query[i] = 1

PipelineSteps ==
    <<"load_corpus", "build_bm25", "prompt", "expand", "preprocess_expanded",
      "preprocess_simple", "score_expanded", "score_simple",
      "evaluate_expanded", "evaluate_simple">>

PngMatches(png, expanded_query) ==
    IF expanded_query
    THEN /\ png.file = "top_ranked_results_expanded_query.png"
         /\ png.score_column = "bm25_score_extended_query"
         /\ png.title = "Extended Query"
    ELSE /\ png.file = "top_ranked_results_simple_query.png"
         /\ png.score_column = "bm25_score_simple_query"
         /\ png.title = "Simple Query"

\* C10: the steps of a search run happen once each and in the order load
\* corpus, build BM25, prompt, expand, score expanded, score simple, evaluate
\* expanded, evaluate simple; every evaluate call writes one PNG whose file
\* name, score column and title are those of its flag; a run that ends with
\* exit status 0 has written exactly the expanded and then the simple PNG, and
\* no run ends having written only one.
C10_ForwardRunOncePipeline ==
    /\ \A i \in 1..Len(PipelineSteps) : Count(PipelineSteps[i], log) <= 1
    /\ \A i \in 1..(Len(PipelineSteps) - 1) :
          Before(PipelineSteps[i], PipelineSteps[i + 1])
    /\ Len(plots) = Len(metrics)
    /\ Len(plots) = Count("evaluate_expanded", log) + Count("evaluate_simple", log)
    /\ \A k \in 1..Len(plots) : PngMatches(plots[k], metrics[k].expanded_query)
    /\ (Mode = "search" /\ pc = "done" /\ exit_code = "0") =>
          /\ Len(plots) = 2
          /\ PngMatches(plots[1], TRUE) /\ PngMatches(plots[2], FALSE)
          /\ \A i \in 1..Len(PipelineSteps) : Count(PipelineSteps[i], log) = 1
    /\ pc = "done" => Len(plots) # 1

C10_Witness ==
    /\ Mode = "search" /\ pc = "done" /\ exit_code = "0"
    /\ Len(plots) = 2
    /\ plots[1].file = "top_ranked_results_expanded_query.png"
    /\ plots[2].file = "top_ranked_results_simple_query.png"

====
